---- MODULE Spec2Model ----
(***************************************************************************)
(* Model of the ClotCare backend (src/app.py): the /predict pipeline       *)
(* (validation and encoding of the 14 questions, scaler, classifier, risk  *)
(* tier), the /live-data feed and the /send-emergency-email trigger.       *)
(*                                                                         *)
(* Representation of values.                                               *)
(*  - A JSON value is a record [type, n, s]; Python's None is JSON null.   *)
(*  - A Python str is a sequence of one-character strings, so that         *)
(*    float(), str.strip() and == work on characters.                      *)
(*  - A Python float that holds an input feature is an integer number of   *)
(*    tenths (37.5 is 375, 1 is 10).                                       *)
(*  - A class probability is an integer number of steps of                 *)
(*    1 / (10000 * Resolution); the same integer read in steps of          *)
(*    1 / (100 * Resolution) is the probability times 100 (the percent).   *)
(***************************************************************************)
EXTENDS Integers, Sequences, FiniteSets, TLC

VARIABLES
    model,                  \* line 27: the classifier artifact
    scaler,                 \* line 28: the scaler artifact
    label_encoder,          \* line 29: the label encoder artifact
    ADDITIONAL_RECIPIENTS,  \* lines 18/24: configured extra recipients
    rng,                    \* hidden state of Python's random module
    pc,                     \* per request thread: position in predict()
    data,                   \* per thread: request.json
    input_features,         \* per thread: the list built by lines 102-113
    input_scaled,           \* per thread: scaler.transform's result
    probabilities,          \* per thread: predict_proba(...)[0]
    response,               \* per thread: the response of predict()
    examined,               \* per thread: the questions data.get() was called for
    calls,                  \* per thread: the artifact calls made, in order
    mailPc,                 \* position in send_emergency_email()
    mailIdx,                \* index of the loop of lines 69-71
    smtp,                   \* SMTP commands completed, in order
    sent,                   \* recipients sendmail() completed for, in order
    mailResponse,           \* status returned by trigger_emergency_email()
    live                    \* last body returned by live_data()

vars == <<model, scaler, label_encoder, ADDITIONAL_RECIPIENTS, rng, pc, data,
          input_features, input_scaled, probabilities, response, examined,
          calls, mailPc, mailIdx, smtp, sent, mailResponse, live>>

artifactVars == <<model, scaler, label_encoder>>
predictVars == <<pc, data, input_features, input_scaled, probabilities,
                 response, examined, calls>>
mailVars == <<mailPc, mailIdx, smtp, sent, mailResponse>>

(***************************************************************************)
(* Bounds of the model.                                                    *)
(***************************************************************************)
\* How many fields of the reference payload one request changes.
MaxEdits == 2
\* Steps of the probability grid per displayed hundredth of a percent.
Resolution == 2
\* Longest configured ADDITIONAL_RECIPIENTS list.
MaxRecipients == 2
\* Number of distinct states of the random generator.
RngPeriod == 3

(***************************************************************************)
(* JSON values and Python strings.                                         *)
(***************************************************************************)
JNull == [type |-> "null", n |-> 0, s |-> <<>>]
JNum(n) == [type |-> "number", n |-> n, s |-> <<>>]
JStr(s) == [type |-> "string", n |-> 0, s |-> s]
JBool(b) == [type |-> "bool", n |-> IF b THEN 10 ELSE 0, s |-> <<>>]
JArray == [type |-> "array", n |-> 0, s |-> <<>>]

Yes == <<"Y", "e", "s">>
No == <<"N", "o">>

Digits == {"0", "1", "2", "3", "4", "5", "6", "7", "8", "9"}
Whitespace == {" "}

DigitValue(c) ==
    CASE c = "0" -> 0 [] c = "1" -> 1 [] c = "2" -> 2 [] c = "3" -> 3
      [] c = "4" -> 4 [] c = "5" -> 5 [] c = "6" -> 6 [] c = "7" -> 7
      [] c = "8" -> 8 [] c = "9" -> 9

\* str.strip(): leading and trailing whitespace removed.
RECURSIVE LStrip(_)
LStrip(s) ==
    IF s # <<>> /\ Head(s) \in Whitespace THEN LStrip(Tail(s)) ELSE s

RECURSIVE RStrip(_)
RStrip(s) ==
    IF s # <<>> /\ s[Len(s)] \in Whitespace
    THEN RStrip(SubSeq(s, 1, Len(s) - 1))
    ELSE s

Strip(s) == RStrip(LStrip(s))

\* Value of a sequence of digits.
RECURSIVE DigitsValue(_)
DigitsValue(s) ==
    IF s = <<>> THEN 0
    ELSE 10 * DigitsValue(SubSeq(s, 1, Len(s) - 1)) + DigitValue(s[Len(s)])

AllDigits(s) == \A i \in 1..Len(s) : s[i] \in Digits

\* Position of the first "." of s, or 0.
DotAt(s) ==
    IF \E i \in 1..Len(s) : s[i] = "."
    THEN CHOOSE i \in 1..Len(s) : s[i] = "." /\ \A j \in 1..(i - 1) : s[j] # "."
    ELSE 0

\* float(str) on the characters this model uses (digits, ".", sign, blank and
\* letters other than those of "e", "inf", "nan" and "_"): surrounding
\* whitespace is stripped, an optional sign, digits with an optional point and
\* at least one digit.  The result is in tenths; further decimals are dropped.
ParseFloat(str) ==
    LET t == Strip(str)
        signed == t # <<>> /\ Head(t) \in {"+", "-"}
        u == IF signed THEN Tail(t) ELSE t
        dot == DotAt(u)
        whole == IF dot = 0 THEN u ELSE SubSeq(u, 1, dot - 1)
        frac == IF dot = 0 THEN <<>> ELSE SubSeq(u, dot + 1, Len(u))
        ok == /\ AllDigits(whole) /\ AllDigits(frac)
              /\ Len(whole) + Len(frac) > 0
        mag == 10 * DigitsValue(whole)
               + (IF frac = <<>> THEN 0 ELSE DigitValue(frac[1]))
    IN  [ok |-> ok,
         value |-> IF ~ok THEN 0
                   ELSE IF signed /\ Head(t) = "-" THEN 0 - mag ELSE mag]

\* float(value) for a JSON value: [ok, value, exc].
PyFloat(value) ==
    CASE value.type = "number" -> [ok |-> TRUE, value |-> value.n, exc |-> "none"]
      [] value.type = "bool" -> [ok |-> TRUE, value |-> value.n, exc |-> "none"]
      [] value.type = "string" ->
            LET p == ParseFloat(value.s)
            IN  [ok |-> p.ok, value |-> p.value,
                 exc |-> IF p.ok THEN "none" ELSE "ValueError"]
      [] OTHER -> [ok |-> FALSE, value |-> 0, exc |-> "TypeError"]

(***************************************************************************)
(* request.json: None, a dict (an insertion-ordered list of key/value      *)
(* pairs with distinct keys) or another JSON value such as a list.         *)
(***************************************************************************)
NoJson == [type |-> "null", items |-> <<>>]
JsonObject(items) == [type |-> "object", items |-> items]
JsonList == [type |-> "array", items |-> <<>>]

HasKey(d, k) == \E i \in 1..Len(d.items) : d.items[i][1] = k

\* dict.get(k): the value stored under k, or None.
DictGet(d, k) ==
    IF HasKey(d, k)
    THEN d.items[CHOOSE i \in 1..Len(d.items) : d.items[i][1] = k][2]
    ELSE JNull

(***************************************************************************)
(* predict(), lines 92-113: validation and encoding.                       *)
(***************************************************************************)
\* The list with two neighbouring questions exchanged.
questionsSwapped ==
    <<"age", "trauma", "vt_history", "cancer", "lung", "renal", "diabetes",
      "bmi", "temperature", "edema", "immobility", "pneumonia", "platelets",
      "af">>

\* lines 96-99
questions ==
    <<"age", "trauma", "vt_history", "cancer", "lung", "renal", "diabetes",
      "temperature", "bmi", "edema", "immobility", "pneumonia", "platelets",
      "af">>

\* line 108
NumericQuestions == {"age", "temperature", "bmi", "platelets"}

\* A response of predict(): the status, the error text (its template, the
\* question and the value formatted into it) or the message (the percentage
\* formatted into it, in hundredths of a percent) and the risk level.
NoResponse ==
    [status |-> 0, text |-> "", q |-> "", value |-> JNull, pct |-> 0,
     risk_level |-> ""]

ErrorResponse(status, text, q, value) ==
    [status |-> status, text |-> text, q |-> q, value |-> value, pct |-> 0,
     risk_level |-> ""]

\* lines 93-94
NoJsonResponse == ErrorResponse(400, "No JSON data provided", "", JNull)

\* The error text without the question.
MissingResponseUnnamed(q) == ErrorResponse(400, "Missing value", "", JNull)

\* line 106
MissingResponse(q) == ErrorResponse(400, "Missing value for: {q}", q, JNull)

\* line 112
InvalidResponse(q, value) ==
    ErrorResponse(400, "Invalid value for {q}: {value}. Must be Yes or No.",
                  q, value)

\* str(e) of the exceptions the handler can meet.
ExceptionText(exc) ==
    CASE exc = "ValueError" -> "could not convert string to float: {value!r}"
      [] exc = "TypeError" ->
            "float() argument must be a string or a real number, not 'list'"
      [] exc = "AttributeError" -> "'list' object has no attribute 'get'"
      [] exc = "ScalerShape" ->
            "X has 14 features, but the scaler is expecting {n} features as input."
      [] exc = "ModelShape" ->
            "X has 14 features, but the classifier is expecting {n} features as input."
      [] exc = "IndexError" -> "index 1 is out of bounds for axis 0 with size 1"

\* lines 137-138: the error text is str(e).
ExceptionResponse(exc, value) ==
    ErrorResponse(500, ExceptionText(exc), "", value)

\* line 105
IsNone(value) == value = JNull

\* The comparison made on value.lower().
IsYesNoAnyCase(value) ==
    \/ value = JStr(Yes) \/ value = JStr(No)
    \/ value = JStr(<<"y", "e", "s">>) \/ value = JStr(<<"n", "o">>)

\* line 111: value in ['Yes', 'No']
IsYesNo(value) == value = JStr(Yes) \/ value = JStr(No)

\* line 113
EncodeYesNo(value) == IF value = JStr(Yes) THEN 10 ELSE 0

\* lines 102-113: the loop from question i on, with the features built so far.
\* kind is "ok" (the loop ended), "return" (an early return) or "raise".
RECURSIVE EncodeLoop(_, _, _)
EncodeLoop(d, i, feats) ==
    IF i > Len(questions)
    THEN [kind |-> "ok", features |-> feats, examined |-> i - 1,
          response |-> NoResponse]
    ELSE IF d.type # "object"
    THEN [kind |-> "raise", features |-> feats, examined |-> i - 1,
          response |-> ExceptionResponse("AttributeError", JNull)]
    ELSE
        LET q == questions[i]
            value == DictGet(d, q)
        IN  IF IsNone(value)
            THEN [kind |-> "return", features |-> feats, examined |-> i,
                  response |-> MissingResponse(q)]
            ELSE IF q \in NumericQuestions
            THEN LET f == PyFloat(value)
                 IN  IF f.ok
                     THEN EncodeLoop(d, i + 1, Append(feats, f.value))
                     ELSE [kind |-> "raise", features |-> feats,
                           examined |-> i,
                           response |-> ExceptionResponse(f.exc, value)]
            ELSE IF ~IsYesNo(value)
            THEN [kind |-> "return", features |-> feats, examined |-> i,
                  response |-> InvalidResponse(q, value)]
            ELSE EncodeLoop(d, i + 1, Append(feats, EncodeYesNo(value)))

\* lines 92-113
EncodeRequest(d) ==
    IF d = NoJson
    THEN [kind |-> "return", features |-> <<>>, examined |-> 0,
          response |-> NoJsonResponse]
    ELSE EncodeLoop(d, 1, <<>>)

(***************************************************************************)
(* The artifacts of lines 27-29.  They are produced outside the repository;*)
(* the model gives them the interface the handler uses: a scaler is an     *)
(* affine transform over n_features_in features, a classifier returns one  *)
(* probability per class for a scaled vector of n_features_in features.    *)
(***************************************************************************)
ProbOne == 10000 * Resolution

RECURSIVE SeqSum(_)
SeqSum(s) == IF s = <<>> THEN 0 ELSE Head(s) + SeqSum(Tail(s))

Clip(x, lo, hi) == IF x < lo THEN lo ELSE IF x > hi THEN hi ELSE x

\* scaler.transform(X) for one row X: [ok, value].
ScalerTransform(sc, X) ==
    IF Len(X) # sc.n_features_in
    THEN [ok |-> FALSE, value |-> <<>>]
    ELSE [ok |-> TRUE,
          value |-> [i \in 1..Len(X) |-> (X[i] - sc.mean) \div sc.scale]]

\* model.predict(X) for one row X: whether the call returns.
ClassifierAccepts(m, X) == Len(X) = m.n_features_in

\* model.predict_proba(X)[0]: one probability per class.
ClassifierProba(m, X) ==
    LET p == Clip(m.intercept + m.coef * SeqSum(X), 0, ProbOne)
    IN  IF m.n_classes = 2 THEN <<ProbOne - p, p>> ELSE <<ProbOne>>

(***************************************************************************)
(* predict(), lines 120-135: percentage, risk level and response.          *)
(***************************************************************************)
\* line 120: round(float(p) * 100, 2), in hundredths of a percent.  p * 100 is
\* the same integer read in steps of 1 / (100 * Resolution); round() goes to
\* the nearest hundredth and, at an exact tie, to the even one.
PyRound2(p) ==
    LET q == p \div Resolution
        r == p % Resolution
    IN  IF 2 * r < Resolution THEN q
        ELSE IF 2 * r > Resolution THEN q + 1
        ELSE IF q % 2 = 0 THEN q ELSE q + 1

\* The comparisons written with <= instead of <.
RiskLevelInclusive(pe_probability) ==
    IF pe_probability <= 35 * 100 THEN "Low Risk"
    ELSE IF pe_probability <= 50 * 100 THEN "Medium Risk"
    ELSE IF pe_probability <= 75 * 100 THEN "High Risk"
    ELSE "Severe Risk"

\* lines 123-130, pe_probability in hundredths of a percent.
RiskLevel(pe_probability) ==
    IF pe_probability < 35 * 100 THEN "Low Risk"
    ELSE IF pe_probability < 50 * 100 THEN "Medium Risk"
    ELSE IF pe_probability < 75 * 100 THEN "High Risk"
    ELSE "Severe Risk"

\* lines 132-135
SuccessResponse(pe_probability) ==
    [status |-> 200,
     text |-> "The person has a {pe_probability}% chance of developing PE in the future.",
     q |-> "", value |-> JNull, pct |-> pe_probability,
     risk_level |-> RiskLevel(pe_probability)]

(***************************************************************************)
(* predict() as the steps of one request thread.                           *)
(***************************************************************************)
Threads == {"t1", "t2"}

Call(fn, arg) == [fn |-> fn, arg |-> arg]

\* line 92: a request arrives with a body drawn from P.
Receive(t, P) ==
    /\ pc[t] = "idle"
    /\ \E d \in P : data' = [data EXCEPT ![t] = d]
    /\ pc' = [pc EXCEPT ![t] = "encode"]
    /\ UNCHANGED <<input_features, input_scaled, probabilities, response,
                   examined, calls>>
    /\ UNCHANGED <<artifactVars, ADDITIONAL_RECIPIENTS, rng, mailVars, live>>

\* The loop without its early returns: the pipeline goes on after a failure.
EncodeNoReturn(t) ==
    /\ pc[t] = "encode"
    /\ LET r == EncodeRequest(data[t])
       IN  /\ input_features' = [input_features EXCEPT ![t] = r.features]
           /\ examined' = [examined EXCEPT
                             ![t] = SubSeq(questions, 1, r.examined)]
           /\ response' = [response EXCEPT ![t] = r.response]
           /\ pc' = [pc EXCEPT ![t] = "transform"]
    /\ UNCHANGED <<data, input_scaled, probabilities, calls>>
    /\ UNCHANGED <<artifactVars, ADDITIONAL_RECIPIENTS, rng, mailVars, live>>

\* lines 93-115 (and 137-138 when float() or data.get raises)
Encode(t) ==
    /\ pc[t] = "encode"
    /\ LET r == EncodeRequest(data[t])
       IN  /\ input_features' = [input_features EXCEPT ![t] = r.features]
           /\ examined' = [examined EXCEPT
                             ![t] = SubSeq(questions, 1, r.examined)]
           /\ response' = [response EXCEPT ![t] = r.response]
           /\ pc' = [pc EXCEPT
                       ![t] = IF r.kind = "ok" THEN "transform" ELSE "done"]
    /\ UNCHANGED <<data, input_scaled, probabilities, calls>>
    /\ UNCHANGED <<artifactVars, ADDITIONAL_RECIPIENTS, rng, mailVars, live>>

\* scaler.fit_transform in place of scaler.transform: the scaler is refitted
\* on the request's row before it is applied.
TransformRefit(t) ==
    /\ pc[t] = "transform"
    /\ calls' = [calls EXCEPT
                   ![t] = Append(@, Call("scaler.transform", input_features[t]))]
    /\ scaler' = [scaler EXCEPT !.n_features_in = Len(input_features[t]),
                                !.mean = input_features[t][1]]
    /\ input_scaled' = [input_scaled EXCEPT
                          ![t] = ScalerTransform(scaler', input_features[t]).value]
    /\ pc' = [pc EXCEPT ![t] = "predict"]
    /\ UNCHANGED <<data, input_features, probabilities, examined, response>>
    /\ UNCHANGED <<model, label_encoder, ADDITIONAL_RECIPIENTS, rng, mailVars,
                   live>>

\* line 116 (and 137-138 when the scaler raises)
Transform(t) ==
    /\ pc[t] = "transform"
    /\ calls' = [calls EXCEPT
                   ![t] = Append(@, Call("scaler.transform", input_features[t]))]
    /\ LET r == ScalerTransform(scaler, input_features[t])
       IN  IF r.ok
           THEN /\ input_scaled' = [input_scaled EXCEPT ![t] = r.value]
                /\ pc' = [pc EXCEPT ![t] = "predict"]
                /\ UNCHANGED response
           ELSE /\ response' = [response EXCEPT
                                  ![t] = ExceptionResponse("ScalerShape", JNull)]
                /\ pc' = [pc EXCEPT ![t] = "done"]
                /\ UNCHANGED input_scaled
    /\ UNCHANGED <<data, input_features, probabilities, examined>>
    /\ UNCHANGED <<artifactVars, ADDITIONAL_RECIPIENTS, rng, mailVars, live>>

\* line 118 (and 137-138 when the classifier raises)
ModelPredict(t) ==
    /\ pc[t] = "predict"
    /\ calls' = [calls EXCEPT
                   ![t] = Append(@, Call("model.predict", input_scaled[t]))]
    /\ IF ClassifierAccepts(model, input_scaled[t])
       THEN /\ pc' = [pc EXCEPT ![t] = "predict_proba"]
            /\ UNCHANGED response
       ELSE /\ response' = [response EXCEPT
                              ![t] = ExceptionResponse("ModelShape", JNull)]
            /\ pc' = [pc EXCEPT ![t] = "done"]
    /\ UNCHANGED <<data, input_features, input_scaled, probabilities, examined>>
    /\ UNCHANGED <<artifactVars, ADDITIONAL_RECIPIENTS, rng, mailVars, live>>

\* line 119
PredictProba(t) ==
    /\ pc[t] = "predict_proba"
    /\ calls' = [calls EXCEPT
                   ![t] = Append(@, Call("model.predict_proba", input_scaled[t]))]
    /\ probabilities' = [probabilities EXCEPT
                           ![t] = ClassifierProba(model, input_scaled[t])]
    /\ pc' = [pc EXCEPT ![t] = "respond"]
    /\ UNCHANGED <<data, input_features, input_scaled, response, examined>>
    /\ UNCHANGED <<artifactVars, ADDITIONAL_RECIPIENTS, rng, mailVars, live>>

\* lines 120-135 (and 137-138 when probabilities[0][1] raises)
Respond(t) ==
    /\ pc[t] = "respond"
    /\ response' = [response EXCEPT
                      ![t] = IF Len(probabilities[t]) < 2
                             THEN ExceptionResponse("IndexError", JNull)
                             ELSE SuccessResponse(PyRound2(probabilities[t][2]))]
    /\ pc' = [pc EXCEPT ![t] = "done"]
    /\ UNCHANGED <<data, input_features, input_scaled, probabilities,
                   examined, calls>>
    /\ UNCHANGED <<artifactVars, ADDITIONAL_RECIPIENTS, rng, mailVars, live>>

\* The response has been sent; the thread is free for the next request.
Finish(t) ==
    /\ pc[t] = "done"
    /\ pc' = [pc EXCEPT ![t] = "idle"]
    /\ data' = [data EXCEPT ![t] = NoJson]
    /\ input_features' = [input_features EXCEPT ![t] = <<>>]
    /\ input_scaled' = [input_scaled EXCEPT ![t] = <<>>]
    /\ probabilities' = [probabilities EXCEPT ![t] = <<>>]
    /\ response' = [response EXCEPT ![t] = NoResponse]
    /\ examined' = [examined EXCEPT ![t] = <<>>]
    /\ calls' = [calls EXCEPT ![t] = <<>>]
    /\ UNCHANGED <<artifactVars, ADDITIONAL_RECIPIENTS, rng, mailVars, live>>

(***************************************************************************)
(* live_data(), lines 176-187.  The random module is a generator with one  *)
(* process-wide state; each draw is a function of that state and advances  *)
(* it.  The model's generator has RngPeriod states.                        *)
(***************************************************************************)
\* lines 178-181, in tenths
ecg_pattern ==
    <<3042, 3123, 2935, 3624, 3234, 3017, 5341,
      3172, 3093, 2865, 3754, 3294, 3117, 5811>>

DigitChar(n) ==
    CASE n = 0 -> "0" [] n = 1 -> "1" [] n = 2 -> "2" [] n = 3 -> "3"
      [] n = 4 -> "4" [] n = 5 -> "5" [] n = 6 -> "6" [] n = 7 -> "7"
      [] n = 8 -> "8" [] n = 9 -> "9"

RECURSIVE NatToStr(_)
NatToStr(n) ==
    IF n < 10 THEN <<DigitChar(n)>>
    ELSE Append(NatToStr(n \div 10), DigitChar(n % 10))

\* line 183: str() of a float given in tenths.
FloatToStr(tenths) ==
    NatToStr(tenths \div 10) \o <<".", DigitChar(tenths % 10)>>

\* The k-th draw from generator state s, as an index into 0..(n - 1).
Draw(s, k, n) == (7 * s + 3 * k) % n

NoLiveData == [ecg |-> <<>>, hr |-> 0, spo2 |-> 0, temp |-> 0]

\* lines 182-187: choice, randint(60, 110), uniform(94, 99) and
\* uniform(36.5, 38.0) rounded to one decimal (in tenths).
LiveData ==
    /\ live' = [ecg |-> FloatToStr(ecg_pattern[Draw(rng, 1, Len(ecg_pattern)) + 1]),
                hr |-> 60 + Draw(rng, 2, 51),
                spo2 |-> 940 + Draw(rng, 3, 51),
                temp |-> 365 + Draw(rng, 4, 16)]
    /\ rng' = (rng + 1) % RngPeriod
    /\ UNCHANGED <<artifactVars, ADDITIONAL_RECIPIENTS, predictVars, mailVars>>

(***************************************************************************)
(* send_emergency_email() and trigger_emergency_email(), lines 32-87.      *)
(* Every SMTP command either completes or raises; an exception anywhere in *)
(* lines 34-75 is caught by line 76 and the trigger answers 500.           *)
(***************************************************************************)
\* line 23
EMAIL_RECIPIENT == <<"p">>

\* The handler is entered and the message is composed (lines 35-57).
MailTrigger ==
    /\ mailPc = "idle"
    /\ mailPc' = "connect"
    /\ mailIdx' = 0
    /\ smtp' = <<>>
    /\ sent' = <<>>
    /\ mailResponse' = 0
    /\ UNCHANGED <<artifactVars, ADDITIONAL_RECIPIENTS, rng, predictVars, live>>

\* lines 76-78 and 86-87: the exception is caught, the trigger answers 500.
MailFails ==
    /\ mailPc' = "done"
    /\ mailResponse' = 500
    /\ UNCHANGED <<mailIdx, smtp, sent>>

\* An SMTP command that is no sendmail: it completes, or it raises.
MailCommand(at, cmd, next) ==
    /\ mailPc = at
    /\ \/ /\ smtp' = Append(smtp, cmd)
          /\ mailPc' = next
          /\ UNCHANGED <<mailIdx, sent, mailResponse>>
       \/ MailFails
    /\ UNCHANGED <<artifactVars, ADDITIONAL_RECIPIENTS, rng, predictVars, live>>

\* line 60
MailConnect == MailCommand("connect", "connect", "starttls")
\* line 61
MailStartTls == MailCommand("starttls", "starttls", "login")
\* line 62
MailLogin == MailCommand("login", "login", "send_primary")

\* line 66
MailSendPrimary ==
    /\ mailPc = "send_primary"
    /\ \/ /\ smtp' = Append(smtp, "sendmail")
          /\ sent' = Append(sent, EMAIL_RECIPIENT)
          /\ mailPc' = "loop"
          /\ mailIdx' = 1
          /\ UNCHANGED mailResponse
       \/ MailFails
    /\ UNCHANGED <<artifactVars, ADDITIONAL_RECIPIENTS, rng, predictVars, live>>

\* Every entry is sent to, blank or not.
SkipRecipientNever(recipient) == FALSE

\* line 70: an entry that is empty after strip() is skipped.
SkipRecipient(recipient) == Strip(recipient) = <<>>

\* lines 69-71: one iteration of the loop, or its end.
MailLoop ==
    /\ mailPc = "loop"
    /\ IF mailIdx > Len(ADDITIONAL_RECIPIENTS)
       THEN /\ mailPc' = "quit"
            /\ UNCHANGED <<mailIdx, smtp, sent, mailResponse>>
       ELSE IF SkipRecipient(ADDITIONAL_RECIPIENTS[mailIdx])
       THEN /\ mailIdx' = mailIdx + 1
            /\ UNCHANGED <<mailPc, smtp, sent, mailResponse>>
       ELSE \/ /\ smtp' = Append(smtp, "sendmail")
               /\ sent' = Append(sent, Strip(ADDITIONAL_RECIPIENTS[mailIdx]))
               /\ mailIdx' = mailIdx + 1
               /\ UNCHANGED <<mailPc, mailResponse>>
            \/ MailFails
    /\ UNCHANGED <<artifactVars, ADDITIONAL_RECIPIENTS, rng, predictVars, live>>

\* line 73
MailQuit == MailCommand("quit", "quit", "return")

\* lines 75 and 83-85
MailReturn ==
    /\ mailPc = "return"
    /\ mailPc' = "done"
    /\ mailResponse' = 200
    /\ UNCHANGED <<mailIdx, smtp, sent>>
    /\ UNCHANGED <<artifactVars, ADDITIONAL_RECIPIENTS, rng, predictVars, live>>

\* The response has been sent.
MailFinish ==
    /\ mailPc = "done"
    /\ mailPc' = "idle"
    /\ UNCHANGED <<mailIdx, smtp, sent, mailResponse>>
    /\ UNCHANGED <<artifactVars, ADDITIONAL_RECIPIENTS, rng, predictVars, live>>

MailStep ==
    \/ MailTrigger
    \/ MailConnect
    \/ MailStartTls
    \/ MailLogin
    \/ MailSendPrimary
    \/ MailLoop
    \/ MailQuit
    \/ MailReturn
    \/ MailFinish


(***************************************************************************)
(* The request bodies the model sends: the reference payload (all fields   *)
(* valid) with up to MaxEdits fields changed or removed, its keys in the   *)
(* order of questions or reversed after an extra key, and two bodies that  *)
(* are no JSON object.                                                     *)
(***************************************************************************)
Absent == [type |-> "absent", n |-> 0, s |-> <<>>]

ReferenceValue(q) ==
    CASE q = "age" -> JNum(450)
      [] q = "temperature" -> JNum(370)
      [] q = "bmi" -> JNum(225)
      [] q = "platelets" -> JNum(2500)
      [] q = "note" -> JStr(<<"a", "b", "c">>)
      [] OTHER -> JStr(No)

NumericAlternatives ==
    {JStr(<<"3", "7", ".", "5">>), JStr(<<" ", "4", "5">>),
     JStr(<<"a", "b", "c">>), JStr(<<>>), JBool(TRUE), JArray, JNull, Absent}

YesNoAlternatives ==
    {JStr(Yes), JStr(<<"y", "e", "s">>), JStr(<<"1">>), JStr(<<>>),
     JStr(<<"m", "a", "y", "b", "e">>), JBool(TRUE), JNum(10), JNull, Absent}

Alternatives(q) ==
    IF q \in NumericQuestions THEN NumericAlternatives ELSE YesNoAlternatives

Range(s) == {s[i] : i \in 1..Len(s)}

\* The edits of at most k questions: the first edited question takes any of
\* its alternatives, each further one is removed from the body.
RECURSIVE EditMaps(_)
EditMaps(k) ==
    IF k = 0 THEN {<<>>}
    ELSE LET less == EditMaps(k - 1)
         IN  less \cup
             {x[1] @@ (x[2] :> x[3]) :
                x \in {y \in less \X Range(questions) \X
                               (NumericAlternatives \cup YesNoAlternatives) :
                         /\ y[2] \notin DOMAIN y[1]
                         /\ y[3] \in IF y[1] = <<>>
                                     THEN Alternatives(y[2])
                                     ELSE {Absent}}}

RECURSIVE ItemsOf(_, _)
ItemsOf(order, m) ==
    IF order = <<>> THEN <<>>
    ELSE LET q == Head(order)
             v == IF q \in DOMAIN m THEN m[q] ELSE ReferenceValue(q)
         IN  (IF v = Absent THEN <<>> ELSE << <<q, v>> >>)
             \o ItemsOf(Tail(order), m)

Reverse(s) == [i \in 1..Len(s) |-> s[Len(s) + 1 - i]]

KeyOrders == {questions, <<"note">> \o Reverse(questions)}

ReferencePayload == JsonObject(ItemsOf(questions, <<>>))

Payloads ==
    {JsonObject(ItemsOf(o, m)) : o \in KeyOrders, m \in EditMaps(MaxEdits)}
    \cup {NoJson, JsonList}

(***************************************************************************)
(* Startup, lines 12-29: the artifacts are loaded, nothing is in flight.   *)
(***************************************************************************)
Scaler(n) == [n_features_in |-> n, mean |-> 100, scale |-> 10]
Classifier(n, k, b, c) ==
    [n_features_in |-> n, n_classes |-> k, intercept |-> b, coef |-> c]
LabelEncoder == [classes |-> <<"No", "Yes">>]

\* The artifact files the service may find at startup: a matching pair, a
\* scaler fitted on another number of features, and a classifier fitted on
\* one class only.
Startups ==
    {[scaler |-> Scaler(14), model |-> Classifier(14, 2, 3000 * Resolution, 7)],
     [scaler |-> Scaler(13), model |-> Classifier(14, 2, 3000 * Resolution, 7)],
     [scaler |-> Scaler(14), model |-> Classifier(14, 1, 3000 * Resolution, 7)]}

Loaded(a) ==
    /\ model = a.model
    /\ scaler = a.scaler
    /\ label_encoder = LabelEncoder

NothingInFlight ==
    /\ pc = [t \in Threads |-> "idle"]
    /\ data = [t \in Threads |-> NoJson]
    /\ input_features = [t \in Threads |-> <<>>]
    /\ input_scaled = [t \in Threads |-> <<>>]
    /\ probabilities = [t \in Threads |-> <<>>]
    /\ response = [t \in Threads |-> NoResponse]
    /\ examined = [t \in Threads |-> <<>>]
    /\ calls = [t \in Threads |-> <<>>]
    /\ mailPc = "idle"
    /\ mailIdx = 0
    /\ smtp = <<>>
    /\ sent = <<>>
    /\ mailResponse = 0
    /\ rng = 0
    /\ live = NoLiveData

Init ==
    /\ \E a \in Startups : Loaded(a)
    /\ ADDITIONAL_RECIPIENTS = <<>>
    /\ NothingInFlight

\* One request thread serving /predict requests one after the other.
Next ==
    \/ Receive("t1", Payloads)
    \/ Encode("t1")
    \/ Transform("t1")
    \/ ModelPredict("t1")
    \/ PredictProba("t1")
    \/ Respond("t1")
    \/ Finish("t1")

Spec == Init /\ [][Next]_vars

(***************************************************************************)
(* The specification's side of the claims: FeatureSpec and what a valid    *)
(* field is, stated on the request body and not by the handler's code.     *)
(***************************************************************************)
FeatureSpec ==
    <<"age", "trauma", "vt_history", "cancer", "lung", "renal", "diabetes",
      "temperature", "bmi", "edema", "immobility", "pneumonia", "platelets",
      "af">>

NumericFields == {"age", "temperature", "bmi", "platelets"}
BooleanFields == Range(FeatureSpec) \ NumericFields

\* The values the body gives for field f (none when the key is absent).
Given(d, f) == {d.items[i][2] : i \in {j \in 1..Len(d.items) : d.items[j][1] = f}}

MissingField(d, f) == Given(d, f) \subseteq {JNull}

\* The strings of the model that denote a number, with the number in tenths.
NumberTexts ==
    {<<<<"3", "7", ".", "5">>, 375>>, <<<<" ", "4", "5">>, 450>>}

\* A number, a numeric string or a JSON boolean (which float() reads as 1 or 0).
DenotesNumber(v) ==
    \/ v.type \in {"number", "bool"}
    \/ v.type = "string" /\ \E x \in NumberTexts : x[1] = v.s

NumberDenoted(v) ==
    IF v.type = "string"
    THEN (CHOOSE x \in NumberTexts : x[1] = v.s)[2]
    ELSE v.n

ValidField(d, f) ==
    /\ ~MissingField(d, f)
    /\ \A v \in Given(d, f) :
         IF f \in NumericFields THEN DenotesNumber(v)
         ELSE v \in {JStr(Yes), JStr(No)}

\* The positions in FeatureSpec of the fields that are not valid.
FaultyPositions(d) ==
    {i \in 1..Len(FeatureSpec) : ~ValidField(d, FeatureSpec[i])}

ValidPayload(d) == d.type = "object" /\ FaultyPositions(d) = {}

\* The first position, in FeatureSpec order, of a field that is not valid.
FirstFaulty(d) ==
    CHOOSE i \in FaultyPositions(d) : \A j \in FaultyPositions(d) : i <= j

Answered(t) == pc[t] = "done"
ClientError(r) == r.status >= 400 /\ r.status <= 499
ServerError(r) == r.status >= 500 /\ r.status <= 599

\* C1 (as claimed): a numeric field that holds a value which cannot be parsed
\* as a number, all fields before it being valid, ends predict in a 4xx
\* response that names the field.
C1_UnparseableNumberIsClientError ==
    \A t \in Threads :
      Answered(t) /\ data[t].type = "object" /\ ~ValidPayload(data[t]) =>
        LET f == FeatureSpec[FirstFaulty(data[t])]
        IN  f \in NumericFields /\ ~MissingField(data[t], f)
              => ClientError(response[t]) /\ response[t].q = f

\* C2: a fully valid payload with exactly one of the 14 fields removed or
\* null is answered 4xx with an error text that names that field and nothing
\* else.
C2_MissingFieldNamed ==
    \A t \in Threads :
      Answered(t) /\ data[t].type = "object" =>
        LET faulty == FaultyPositions(data[t])
        IN  \A i \in faulty :
              faulty = {i} /\ MissingField(data[t], FeatureSpec[i])
              => /\ ClientError(response[t])
                 /\ response[t].q = FeatureSpec[i]
                 /\ response[t].value = JNull

C2_Witness ==
    /\ Answered("t1")
    /\ Given(data["t1"], "af") = {}
    /\ Given(data["t1"], "note") # {}
    /\ \A g \in Range(FeatureSpec) \ {"af"} : ValidField(data["t1"], g)
    /\ response["t1"].status = 400
    /\ response["t1"].q = "af"

\* C3: a boolean field that holds a non-null value other than exactly "Yes"
\* or "No", all fields before it being valid, is answered 4xx naming the
\* field; the encoding goes past a boolean field only when it is "Yes" or "No".
C3_OnlyYesNoAccepted ==
    \A t \in Threads :
      data[t].type = "object" =>
        LET faulty == FaultyPositions(data[t])
        IN  \A i \in 1..Len(FeatureSpec) :
              FeatureSpec[i] \in BooleanFields =>
                /\ ( /\ Answered(t)
                     /\ i \in faulty
                     /\ \A j \in faulty : i <= j
                     /\ ~MissingField(data[t], FeatureSpec[i]) )
                   => /\ ClientError(response[t])
                      /\ response[t].q = FeatureSpec[i]
                /\ (Len(examined[t]) > i \/ Len(input_features[t]) >= i)
                   => /\ Given(data[t], FeatureSpec[i]) # {}
                      /\ Given(data[t], FeatureSpec[i])
                           \subseteq {JStr(Yes), JStr(No)}

C3_Witness ==
    /\ Answered("t1")
    /\ Given(data["t1"], "immobility") = {JStr(<<"y", "e", "s">>)}
    /\ Given(data["t1"], "af") = {}
    /\ data["t1"].items[1][1] = "note"
    /\ response["t1"].status = 400
    /\ response["t1"].q = "immobility"

\* C4: when the payload has a missing, null, non-numeric or non-Yes/No field
\* (or is no JSON object at all), neither scaler.transform nor model.predict
\* nor model.predict_proba is invoked at any point of the request; a call is
\* made only once all 14 fields have been examined and encoded.
C4_NoInferenceOnInvalid ==
    \A t \in Threads :
      /\ ~ValidPayload(data[t]) => calls[t] = <<>>
      /\ calls[t] # <<>> =>
           /\ examined[t] = FeatureSpec
           /\ Len(input_features[t]) = Len(FeatureSpec)

C4_Witness ==
    /\ Answered("t1")
    /\ Given(data["t1"], "bmi") = {}
    /\ \A g \in Range(FeatureSpec) \ {"bmi"} : ValidField(data["t1"], g)
    /\ response["t1"].q = "bmi"
    /\ calls["t1"] = <<>>

\* The texts of the exceptions raised inside the scaler and the classifier.
InternalExceptionTexts ==
    {ExceptionText(e) : e \in {"ScalerShape", "ModelShape", "IndexError"}}

\* C6 (as claimed): a failure of the scaler, the classifier or another
\* internal step after validation is answered 5xx with a message that carries
\* none of the internal exception's text.
C6_InternalFailureOpaque ==
    \A t \in Threads :
      Answered(t) /\ calls[t] # <<>> /\ response[t].status # 200 =>
        /\ ServerError(response[t])
        /\ response[t].text \notin InternalExceptionTexts

\* C7: the vector handed to the scaler has 14 entries in FeatureSpec order,
\* whatever the order of the request's keys and its extra keys: the number
\* for a numeric field, 1 for "Yes" and 0 for "No" (in tenths); every valid
\* payload reaches the scaler with that vector.
ExpectedEntry(d, f) ==
    LET v == CHOOSE x \in Given(d, f) : TRUE
    IN  IF f \in NumericFields THEN NumberDenoted(v)
        ELSE IF v = JStr(Yes) THEN 10 ELSE 0

C7_VectorInFeatureSpecOrder ==
    \A t \in Threads :
      /\ \A k \in 1..Len(calls[t]) :
           calls[t][k].fn = "scaler.transform" =>
             /\ Len(calls[t][k].arg) = 14
             /\ ValidPayload(data[t])
             /\ \A i \in 1..14 :
                  calls[t][k].arg[i] = ExpectedEntry(data[t], FeatureSpec[i])
      /\ ValidPayload(data[t]) /\ pc[t] \notin {"idle", "encode", "transform"}
           => calls[t] # <<>> /\ calls[t][1].fn = "scaler.transform"

C7_Witness ==
    /\ calls["t1"] # <<>>
    /\ calls["t1"][1].fn = "scaler.transform"
    /\ data["t1"].items[1][1] = "note"
    /\ Given(data["t1"], "temperature") = {JStr(<<"3", "7", ".", "5">>)}
    /\ calls["t1"][1].arg[8] = 375
    /\ calls["t1"][1].arg[9] = 225

\* C9 (as claimed): with several missing or invalid fields the response is
\* the failure of the first faulty field in FeatureSpec order and names it,
\* and no field after it is examined.
C9_FirstFaultyFieldReported ==
    \A t \in Threads :
      ( /\ Answered(t)
        /\ data[t].type = "object"
        /\ ~ValidPayload(data[t]) )
      => /\ response[t].status # 200
         /\ response[t].q = FeatureSpec[FirstFaulty(data[t])]
         /\ examined[t] = SubSeq(FeatureSpec, 1, FirstFaulty(data[t]))

(***************************************************************************)
(* The risk tier over the whole probability grid: the service started with *)
(* a classifier that returns probability p whatever the input, for every p *)
(* of the grid, serving the reference payload.                             *)
(***************************************************************************)
InitRisk ==
    /\ \E p \in 0..ProbOne :
         Loaded([scaler |-> Scaler(14), model |-> Classifier(14, 2, p, 0)])
    /\ ADDITIONAL_RECIPIENTS = <<>>
    /\ NothingInFlight

NextRisk ==
    \/ Receive("t1", {ReferencePayload})
    \/ Encode("t1")
    \/ Transform("t1")
    \/ ModelPredict("t1")
    \/ PredictProba("t1")
    \/ Respond("t1")
    \/ Finish("t1")

SpecRisk == InitRisk /\ [][NextRisk]_vars

\* The table of section 4.4 of the specification, in hundredths of a percent.
TierTable ==
    {[lo |-> 0, hi |-> 3499, tier |-> "Low Risk"],
     [lo |-> 3500, hi |-> 4999, tier |-> "Medium Risk"],
     [lo |-> 5000, hi |-> 7499, tier |-> "High Risk"],
     [lo |-> 7500, hi |-> 10000, tier |-> "Severe Risk"]}

Abs(x) == IF x < 0 THEN 0 - x ELSE x

\* C5: in a successful response the percentage shown is the classifier's
\* positive-class probability times 100 rounded to two decimals, and the
\* risk level is the one row of the threshold table that holds that rounded
\* percentage: [0,35) Low, [35,50) Medium, [50,75) High, [75,100] Severe.
C5_TierOfRoundedPercent ==
    \A t \in Threads :
      Answered(t) /\ response[t].status = 200 =>
        LET p == probabilities[t][2]
            h == response[t].pct
        IN  /\ 2 * Abs(Resolution * h - p) <= Resolution
            /\ Cardinality({row \in TierTable : row.lo <= h /\ h <= row.hi}) = 1
            /\ \E row \in TierTable :
                 row.lo <= h /\ h <= row.hi /\ response[t].risk_level = row.tier
            /\ (h = 0 \/ h = 3499) => response[t].risk_level = "Low Risk"
            /\ (h = 3500 \/ h = 4999) => response[t].risk_level = "Medium Risk"
            /\ (h = 5000 \/ h = 7499) => response[t].risk_level = "High Risk"
            /\ (h = 7500 \/ h = 10000) => response[t].risk_level = "Severe Risk"

\* A probability just under 35 percent that rounds to 35.00 and is Medium.
C5_Witness ==
    /\ Answered("t1")
    /\ response["t1"].status = 200
    /\ probabilities["t1"][2] = 3500 * Resolution - 1
    /\ response["t1"].pct = 3500
    /\ response["t1"].risk_level = "Medium Risk"

(***************************************************************************)
(* The service with two request threads: /predict requests in parallel,    *)
(* interleaved with /live-data and /send-emergency-email requests.         *)
(***************************************************************************)
ConcurrentEdits ==
    {<<>>, "bmi" :> Absent, "trauma" :> JStr(Yes),
     "age" :> JStr(<<"a", "b", "c">>)}

ConcurrentPayloads ==
    {JsonObject(ItemsOf(questions, m)) : m \in ConcurrentEdits} \cup {NoJson}

InitConc ==
    /\ \E a \in Startups : Loaded(a)
    /\ ADDITIONAL_RECIPIENTS = <<>>
    /\ NothingInFlight

PredictStep(t) ==
    \/ Receive(t, ConcurrentPayloads)
    \/ Encode(t)
    \/ Transform(t)
    \/ ModelPredict(t)
    \/ PredictProba(t)
    \/ Respond(t)
    \/ Finish(t)

NextConc ==
    \/ \E t \in Threads : PredictStep(t)
    \/ LiveData
    \/ MailStep

SpecConc == InitConc /\ [][NextConc]_vars

SameAnswerForSameBody ==
    \A t, u \in Threads :
      Answered(t) /\ Answered(u) /\ data[t] = data[u]
        => response[t] = response[u]

\* C8: two answered predict requests with identical bodies carry identical
\* responses, whatever predict, live-data and send-emergency-email steps are
\* interleaved with them, and no step of any handler changes the model, the
\* scaler or the label encoder loaded at startup.
C8_Idempotent ==
    /\ []SameAnswerForSameBody
    /\ [][UNCHANGED artifactVars]_vars

C8_Witness ==
    /\ Answered("t1") /\ Answered("t2")
    /\ data["t1"] = data["t2"]
    /\ response["t1"].status = 200
    /\ response["t2"] = response["t1"]
    /\ live # NoLiveData
    /\ mailPc = "done"

(***************************************************************************)
(* The alert trigger alone, for every configured list of additional        *)
(* recipients of at most MaxRecipients entries.                            *)
(***************************************************************************)
RecipientPool == {<<"a">>, <<" ", "b", " ">>, <<>>, <<" ">>}

RecipientLists ==
    UNION {[1..n -> RecipientPool] : n \in 0..MaxRecipients}

InitEmail ==
    /\ Loaded([scaler |-> Scaler(14),
               model |-> Classifier(14, 2, 3000 * Resolution, 7)])
    /\ ADDITIONAL_RECIPIENTS \in RecipientLists
    /\ NothingInFlight

SpecEmail == InitEmail /\ [][MailStep]_vars

\* An entry with a character that is no blank, and the entry without its
\* leading and trailing blanks.
NonBlank(r) == \E i \in 1..Len(r) : r[i] # " "

Trimmed(r) ==
    LET first == CHOOSE i \in 1..Len(r) :
                   r[i] # " " /\ \A j \in 1..(i - 1) : r[j] = " "
        last == CHOOSE i \in 1..Len(r) :
                  r[i] # " " /\ \A j \in (i + 1)..Len(r) : r[j] = " "
    IN  SubSeq(r, first, last)

RECURSIVE TrimmedNonBlank(_)
TrimmedNonBlank(list) ==
    IF list = <<>> THEN <<>>
    ELSE (IF NonBlank(Head(list)) THEN <<Trimmed(Head(list))>> ELSE <<>>)
         \o TrimmedNonBlank(Tail(list))

\* The primary recipient, then every non-blank additional one in list order.
ExpectedRecipients == <<EMAIL_RECIPIENT>> \o TrimmedNonBlank(ADDITIONAL_RECIPIENTS)

IsPrefix(a, b) == Len(a) <= Len(b) /\ SubSeq(b, 1, Len(a)) = a

Completed(cmd) == \E i \in 1..Len(smtp) : smtp[i] = cmd

MailAnswered == mailPc = "done"

\* C10 (as claimed): the trigger answers 200 if and only if connect, login
\* and every send completed (the primary recipient first, then every
\* non-blank additional recipient in list order); otherwise it answers 500,
\* and the sends completed before the failure stay done.
C10_SuccessIffEverySendCompleted ==
    MailAnswered =>
      /\ mailResponse \in {200, 500}
      /\ mailResponse = 200 <=>
           (Completed("connect") /\ Completed("login")
            /\ sent = ExpectedRecipients)
      /\ IsPrefix(sent, ExpectedRecipients)

\* C10 (amended): the trigger answers 200 if and only if connect, starttls,
\* login, every send and the closing quit completed; the sends are the
\* primary recipient first, then every non-blank additional recipient in
\* list order; otherwise it answers 500, and the sends completed before the
\* failing step stay done.
C10_SuccessIffEveryStepCompleted ==
    MailAnswered =>
      /\ mailResponse \in {200, 500}
      /\ mailResponse = 200 <=>
           (Completed("connect") /\ Completed("starttls") /\ Completed("login")
            /\ sent = ExpectedRecipients /\ Completed("quit"))
      /\ IsPrefix(sent, ExpectedRecipients)

\* A failure answer after a send completed: a blank entry was skipped, the
\* primary recipient and one additional recipient were notified.
C10_Witness ==
    /\ MailAnswered
    /\ mailResponse = 500
    /\ ADDITIONAL_RECIPIENTS = <<<<" ">>, <<" ", "b", " ">>>>
    /\ sent = <<EMAIL_RECIPIENT, <<"b">>>>

====
